---- MODULE Spec2Model ----
(***************************************************************************)
(* Model of mise's Toolset (src/toolset/mod.rs): the install scheduler     *)
(* Toolset::install_versions with its worker pool, the merge algebra of    *)
(* Toolset::add_version / Toolset::merge, and the environment composition  *)
(* of Toolset::env / env_with_path / full_env; and of ForgeArg parsing     *)
(* (src/cli/args/forge_arg.rs) with the registry (src/registry.rs).        *)
(***************************************************************************)
EXTENDS Integers, Sequences, FiniteSets, TLC

(* ------------------------------ bounds -------------------------------- *)
\* longest batch handed to install_versions
MaxLen == 3
\* largest value of jobs (number of scoped worker threads)
MaxJobs == 2

\* most add_version / merge calls applied to one Toolset
MaxOps == 2

\* forge ids that occur in install batches
Forges == {"x", "y"}
Workers == 1..MaxJobs

\* forge ids, tool sources and requested versions of the Toolset algebra
TsForges == {"a", "b", "c"}

VARIABLES
    batch,      \* the caller's versions: Vec<ToolRequest>, as the forge of each request
    deps,       \* ToolRequest::dependencies(), per forge
    rdeps,      \* Forge::get_dependencies(), per forge
    opts,       \* InstallOptions: raw, jobs
    settings,   \* Settings: raw, jobs
    jobs,       \* the value of `jobs` (line 178)
    stack,      \* suspended callers of the recursive call (line 161): their `versions`
    versions,   \* `versions` of the running install_versions call (request indices)
    fpc,        \* position of the running install_versions call
    queue,      \* Arc<Mutex<Vec<(forge, Vec<ToolRequest>)>>>
    installing, \* Arc<Mutex<HashSet<String>>>
    qlock,      \* the worker that holds the MutexGuard of queue, 0 for none
    ilock,      \* the worker that holds the MutexGuard of installing, 0 for none
    pc,         \* position of each worker thread
    cur,        \* (t, versions) popped by each worker
    tv,         \* the request each worker is processing
    left,       \* dependencies of tv the worker has still to wait for
    dep,        \* the dependency the worker is waiting for
    out,        \* each worker's `installed` vector, then its result
    result,     \* what the caller-issued call returned
    retval,     \* the Vec<ToolVersion> the caller-issued call returned
    started,    \* per request: number of install_version calls begun
    finished,   \* per request: number of install_version calls that returned Ok
    reshims,    \* number of shims::reshim calls
    rebuilds,   \* number of runtime_symlinks::rebuild calls
    popped,     \* forges popped from the queue of the running call, in pop order
    leafres,    \* what the last recursive call (line 161) returned
    postres,    \* what self.resolve() (line 230) returned in the running call
    ts,         \* a Toolset: versions, source, disable_tools, tool_filter
    tsPrev,     \* the Toolset before the last operation on it
    tsOp,       \* the last operation on the Toolset and its argument
    nops,       \* number of operations applied to the Toolset
    envIn,      \* what env / env_with_path / full_env read: tools, config, process
    envOut,     \* the last of the three called, and the map it returned
    faIn,       \* the user string handed to ForgeArg::from
    faOut       \* the ForgeArg made of it

schedVars == <<batch, deps, rdeps, opts, settings, jobs, stack, versions, fpc, queue,
               installing, qlock, ilock, pc, cur, tv, left, dep, out, result, retval, started, finished,
               reshims, rebuilds, popped, leafres, postres>>
tsVars == <<ts, tsPrev, tsOp, nops>>
envVars == <<envIn, envOut>>
faVars == <<faIn, faOut>>
vars == <<schedVars, tsVars, envVars, faVars>>

(* ------------------------------ helpers ------------------------------- *)
Range(s) == {s[i] : i \in DOMAIN s}

RECURSIVE Rev(_)
Rev(s) == IF s = <<>> THEN <<>> ELSE Rev(Tail(s)) \o <<Head(s)>>

RECURSIVE Flatten(_)
Flatten(ss) == IF ss = <<>> THEN <<>> ELSE Head(ss) \o Flatten(Tail(ss))

SeqsUpTo(S, n) == UNION {[1..k -> S] : k \in 0..n}

NoEntry == [forge |-> "", reqs |-> <<>>]

\* forge() of the request with index i
ForgeOf(i) == batch[i]

\* itertools group_by: one (key, run) per run of consecutive equal keys
RECURSIVE GroupBy(_)
GroupBy(s) ==
    IF s = <<>> THEN <<>>
    ELSE LET g == GroupBy(Tail(s))
             f == ForgeOf(Head(s))
         IN IF g # <<>> /\ g[1].forge = f
            THEN <<[forge |-> f, reqs |-> <<Head(s)>> \o g[1].reqs]>> \o Tail(g)
            ELSE <<[forge |-> f, reqs |-> <<Head(s)>>]>> \o g

\* the queue built without the rev()
BuildQueueNoRev(vs) == GroupBy(vs)

\* versions.into_iter().rev().group_by(forge).collect()
BuildQueue(vs) == GroupBy(Rev(vs))

\* a partition that takes every request for a leaf
AllLeaves(vs) == vs

\* get_leaf_dependencies: the requests none of whose dependencies() is a forge
\* of the batch
GetLeafDependencies(vs) ==
    LET versions_hash == {ForgeOf(vs[k]) : k \in DOMAIN vs}
    IN SelectSeq(vs, LAMBDA i : \A d \in deps[ForgeOf(i)] : d \notin versions_hash)

(* ------------------------------ Toolset ------------------------------- *)
\* Option<HashSet<ForgeArg>>
NoFilter == [present |-> FALSE, set |-> {}]
SomeFilter(S) == [present |-> TRUE, set |-> S]

\* ToolVersionList::new(forge, source)
NewTvl(fa, source) == [forge |-> fa, source |-> source, requests |-> <<>>]

\* Toolset::default()
DefaultToolset ==
    [versions |-> <<>>, source |-> "none", disable_tools |-> {}, tool_filter |-> NoFilter]

\* IndexMap, as the sequence of its (key, value) entries in insertion order
Keys(m) == {m[i].key : i \in DOMAIN m}
ContainsKey(m, k) == k \in Keys(m)
IndexOf(m, k) == CHOOSE i \in DOMAIN m : m[i].key = k

\* IndexMap::insert: an existing key keeps its place and takes the new value,
\* a new key goes to the end
MapInsert(m, k, v) ==
    IF ContainsKey(m, k)
    THEN [m EXCEPT ![IndexOf(m, k)].tvl = v]
    ELSE Append(m, [key |-> k, tvl |-> v])

\* Toolset::is_disabled
IsDisabled(t, fa) ==
    (t.tool_filter.present /\ fa \notin t.tool_filter.set) \/ fa \in t.disable_tools

\* line 88: for a forge the map lacks, the closure of or_insert_with unwraps
\* self.source, which panics when the toolset has no source
AddVersionPanics(t, tvr) ==
    /\ ~IsDisabled(t, tvr.forge)
    /\ ~ContainsKey(t.versions, tvr.forge)
    /\ t.source = "none"

\* an add_version without the is_disabled test of line 83
AddVersionUnchecked(t, tvr) ==
    LET fa == tvr.forge
        m == IF ContainsKey(t.versions, fa) THEN t.versions
             ELSE Append(t.versions, [key |-> fa, tvl |-> NewTvl(fa, t.source)])
    IN [t EXCEPT !.versions = [m EXCEPT ![IndexOf(m, fa)].tvl.requests = Append(@, tvr)]]

\* Toolset::add_version, when it returns
AddVersion(t, tvr) ==
    LET fa == tvr.forge
    IN IF IsDisabled(t, fa) THEN t
       ELSE LET m == IF ContainsKey(t.versions, fa) THEN t.versions
                     ELSE Append(t.versions, [key |-> fa, tvl |-> NewTvl(fa, t.source)])
            IN [t EXCEPT !.versions =
                   [m EXCEPT ![IndexOf(m, fa)].tvl.requests = Append(@, tvr)]]

\* lines 94-98 of merge: the receiver's entries whose key `versions` lacks are
\* inserted, in the receiver's order (`map` is the local `versions`)
RECURSIVE MergeLoop(_, _)
MergeLoop(map, own) ==
    IF own = <<>> THEN map
    ELSE LET plugin == Head(own).key
             tvl == Head(own).tvl
         IN MergeLoop(IF ~ContainsKey(map, plugin)
                      THEN MapInsert(map, plugin, tvl)
                      ELSE map,
                      Tail(own))

\* a merge in which the receiver's list wins for a forge both sides hold
MergeOwnWins(t, other) ==
    LET map == MergeLoop(t.versions,
                              SelectSeq(other.versions,
                                        LAMBDA e : ~ContainsKey(t.versions, e.key)))
    IN [t EXCEPT !.versions = SelectSeq(map, LAMBDA e : ~IsDisabled(t, e.tvl.forge)),
                 !.source = other.source]

\* Toolset::merge
Merge(t, other) ==
    LET map == MergeLoop(other.versions, t.versions)
    IN [t EXCEPT !.versions = SelectSeq(map, LAMBDA e : ~IsDisabled(t, e.tvl.forge)),
                 !.source = other.source]

\* impl From<ToolRequestSet> for Toolset: one list per forge of trs.tools, in
\* their order, stamped with the first source
RECURSIVE FromLoop(_, _, _)
FromLoop(map, source, tools) ==
    IF tools = <<>> THEN map
    ELSE LET fa == Head(tools).fa
             tvl == [NewTvl(fa, source) EXCEPT !.requests = Head(tools).versions]
         IN FromLoop(MapInsert(map, fa, tvl), source, Tail(tools))

FromToolRequestSet(trs) ==
    [DefaultToolset EXCEPT !.source = trs.source,
                           !.versions = FromLoop(<<>>, trs.source, trs.tools)]

\* sequences of distinct forges, at most n long
DistinctSeqs(S, n) ==
    {q \in SeqsUpTo(S, n) : \A i, j \in DOMAIN q : i # j => q[i] # q[j]}

\* the ToolRequestSets of a source: up to two forges, one request of version v
\* each
RequestSets(source, v) ==
    {[source |-> source,
      tools |-> [i \in DOMAIN q |-> [fa |-> q[i], versions |-> <<[forge |-> q[i], v |-> v]>>]]]
        : q \in DistinctSeqs(TsForges, 2)}

\* the toolsets merged into the receiver: Toolset::default(), and those a
\* second source's request set gives
Others == {DefaultToolset} \cup {FromToolRequestSet(trs) : trs \in RequestSets("s2", 2)}

Filters == {NoFilter} \cup {SomeFilter(S) : S \in SUBSET TsForges}

NoReq == [forge |-> "", v |-> 0]
NoOp == [kind |-> "none", req |-> NoReq, other |-> DefaultToolset]

(* ------------------------- env composition ---------------------------- *)
\* strings are sequences of tokens; the keys of the maps
FOO == <<"FOO">>
HOME == <<"HOME">>
PATH == <<"PATH">>
MISE_ADD_PATH == <<"MISE_ADD_PATH">>
RTX_ADD_PATH == <<"RTX_ADD_PATH">>
MISE_TOOL_OPTS == <<"MISE_TOOL_OPTS__">>
RTX_TOOL_OPTS == <<"RTX_TOOL_OPTS__">>

\* every key, in the order of String's Ord (the order a BTreeMap iterates in)
KeyOrder ==
    <<FOO, HOME, MISE_ADD_PATH, MISE_TOOL_OPTS \o <<"A">>, PATH, RTX_ADD_PATH,
      RTX_TOOL_OPTS \o <<"A">>>>

\* str::starts_with
StartsWith(s, prefix) == Len(prefix) <= Len(s) /\ SubSeq(s, 1, Len(prefix)) = prefix

\* BTreeMap<String, String>, as the function on its keys
EmptyMap == [k \in {} |-> <<>>]
\* BTreeMap::insert: the new value replaces the old one
MapPut(m, k, v) == [x \in DOMAIN m \cup {k} |-> IF x = k THEN v ELSE m[x]]
\* BTreeMap::extend: every pair of n is inserted
Extend(m, n) == [x \in DOMAIN m \cup DOMAIN n |-> IF x \in DOMAIN n THEN n[x] ELSE m[x]]
\* collect() of (key, value) pairs: each pair is inserted in turn
RECURSIVE CollectInto(_, _)
CollectInto(m, ps) ==
    IF ps = <<>> THEN m ELSE CollectInto(MapPut(m, Head(ps).k, Head(ps).v), Tail(ps))
\* into_iter() of a map: its pairs in key order
IntoIter(m) ==
    LET ks == SelectSeq(KeyOrder, LAMBDA k : k \in DOMAIN m)
    IN [i \in DOMAIN ks |-> [k |-> ks[i], v |-> m[ks[i]]]]

\* Itertools::join: the strings with sep between them
RECURSIVE Join(_, _)
Join(strs, sep) ==
    IF strs = <<>> THEN <<>>
    ELSE IF Len(strs) = 1 THEN Head(strs)
    ELSE Head(strs) \o sep \o Join(Tail(strs), sep)

\* PathEnv: the directories of PATH in order
PathEnvFromIter(dirs) == dirs
PathEnvAdd(pe, dir) == Append(pe, dir)
RECURSIVE PathEnvAddAll(_, _)
PathEnvAddAll(pe, dirs) ==
    IF dirs = <<>> THEN pe ELSE PathEnvAddAll(PathEnvAdd(pe, Head(dirs)), Tail(dirs))
PathEnvToString(pe) == Join(pe, <<":">>)

\* list_current_versions, for a toolset whose forges hold one version each:
\* the versions in the insertion order of the map
ListCurrentVersions(in) == in.tools
\* list_current_installed_versions
ListCurrentInstalledVersions(in) ==
    SelectSeq(ListCurrentVersions(in), LAMBDA t : t.installed)

\* list_paths: the bin paths of the current installed non-System versions, an
\* error of list_bin_paths giving none
ListPaths(in) ==
    LET tvs == SelectSeq(ListCurrentInstalledVersions(in), LAMBDA t : ~t.system)
    IN Flatten([i \in DOMAIN tvs |-> IF tvs[i].bins.ok THEN tvs[i].bins.paths ELSE <<>>])

\* lines 357-369: the pairs every current installed non-System version exports,
\* in list order; an error of exec_env gives none
ExecEntries(in) ==
    LET tvs == SelectSeq(ListCurrentInstalledVersions(in), LAMBDA t : ~t.system)
    IN Flatten([i \in DOMAIN tvs |-> IF tvs[i].exec.ok THEN IntoIter(tvs[i].exec.env) ELSE <<>>])

\* lines 370-374
AddPaths(entries) ==
    LET sel == SelectSeq(entries, LAMBDA e : e.k = MISE_ADD_PATH \/ e.k = RTX_ADD_PATH)
    IN Join([i \in DOMAIN sel |-> sel[i].v], <<":">>)

\* lines 375-380: the filters
Exported(entries) ==
    SelectSeq(entries, LAMBDA e :
        /\ e.k # RTX_ADD_PATH
        /\ e.k # MISE_ADD_PATH
        /\ ~StartsWith(e.k, RTX_TOOL_OPTS)
        /\ ~StartsWith(e.k, MISE_TOOL_OPTS))

\* an env that collects the pairs without reversing them
EnvNoRev(in) ==
    LET add_paths == AddPaths(ExecEntries(in))
        entries == CollectInto(EmptyMap, Exported(ExecEntries(in)))
    IN Extend(IF add_paths # <<>> THEN MapPut(entries, PATH, add_paths) ELSE entries,
              in.config.env)

\* Toolset::env
Env(in) ==
    LET add_paths == AddPaths(ExecEntries(in))
        entries == CollectInto(EmptyMap, Rev(Exported(ExecEntries(in))))
    IN Extend(IF add_paths # <<>> THEN MapPut(entries, PATH, add_paths) ELSE entries,
              in.config.env)

\* Toolset::env_with_path
EnvWithPath(in) ==
    LET p0 == PathEnvAddAll(PathEnvFromIter(in.path), in.config.path_dirs)
        env == Env(in)
        p1 == IF PATH \in DOMAIN env THEN PathEnvAdd(p0, env[PATH]) ELSE p0
        path_env == PathEnvAddAll(p1, ListPaths(in))
    IN MapPut(env, PATH, PathEnvToString(path_env))

\* a full_env in which the pristine environment overrides the toolset's
FullEnvPristineWins(in) == Extend(EnvWithPath(in), in.pristine)

\* Toolset::full_env
FullEnv(in) == Extend(in.pristine, EnvWithPath(in))

\* the forges of the toolset whose environment is composed, in insertion order
EnvForges == <<"t1", "t2">>
\* the keys a tool exports, at most two each
ToolKeys == Range(KeyOrder) \ {HOME}
\* what exec_env(config, ts, tv) returns for the version of forge f: an error,
\* or a map whose values name f
ExecEnvs(f) ==
    {[ok |-> FALSE, env |-> EmptyMap]} \cup
    {[ok |-> TRUE, env |-> [k \in S |-> <<f>> \o k]] :
        S \in {S \in SUBSET ToolKeys : Cardinality(S) <= 2}}
\* what list_bin_paths(tv) returns
BinPaths(f) == {[ok |-> FALSE, paths |-> <<>>], [ok |-> TRUE, paths |-> <<<<f, "bin">>>>]}
\* the version of forge f: not installed, a System request, or one whose
\* backend is asked for its environment
ToolStates(f) ==
    {[forge |-> f, installed |-> FALSE, system |-> FALSE,
      exec |-> [ok |-> TRUE, env |-> EmptyMap], bins |-> [ok |-> TRUE, paths |-> <<>>]],
     [forge |-> f, installed |-> TRUE, system |-> TRUE,
      exec |-> [ok |-> TRUE, env |-> EmptyMap], bins |-> [ok |-> TRUE, paths |-> <<>>]]}
    \cup {[forge |-> f, installed |-> TRUE, system |-> FALSE, exec |-> e, bins |-> b] :
            e \in ExecEnvs(f), b \in BinPaths(f)}
\* config.env() and config.path_dirs()
Configs ==
    {[env |-> [k \in S |-> <<"cfg">> \o k], path_dirs |-> d] :
        S \in SUBSET {FOO, PATH, MISE_ADD_PATH}, d \in {<<>>, <<<<"cfgdir">>>>}}
\* env::PRISTINE_ENV
PristineEnvs ==
    {[k \in S |-> <<"pristine">> \o k] : S \in {{}, {HOME, FOO, PATH}}}

NoEnvIn == [tools |-> <<>>, config |-> [env |-> EmptyMap, path_dirs |-> <<>>],
            path |-> <<>>, pristine |-> EmptyMap]
NoEnvOut == [fn |-> "none", map |-> EmptyMap]
\* no environment is composed
EnvIdle == envIn = NoEnvIn /\ envOut = NoEnvOut

(* ------------------------------ ForgeArg ------------------------------ *)
\* longest user string, in tokens
MaxStr == 5

\* the tokens of user strings: the two separators, and words without them
FaTokens == {":", "/", "ubi", "asdf", "cargo", "npm", "node", "nodejs", "@antfu", "ni"}

\* registry::REGISTRY and registry::get
REGISTRY == [k \in {<<"ubi">>} |-> <<"cargo", ":", "ubi">>]
RegistryGet(s) == IF s \in DOMAIN REGISTRY THEN [some |-> TRUE, v |-> REGISTRY[s]]
                  ELSE [some |-> FALSE, v |-> <<>>]

\* str::split_once(':'): the parts before and after the first ':'
SplitOnce(s, c) ==
    IF c \notin Range(s) THEN [some |-> FALSE, head |-> <<>>, tail |-> <<>>]
    ELSE LET i == CHOOSE i \in DOMAIN s : s[i] = c /\ \A j \in 1..(i - 1) : s[j] # c
         IN [some |-> TRUE, head |-> SubSeq(s, 1, i - 1), tail |-> SubSeq(s, i + 1, Len(s))]

\* ForgeType: its tags, as from_str reads and as_ref writes them
ForgeTypes == {"asdf", "cargo", "npm"}
ForgeTypeParse(s) == IF Len(s) = 1 /\ s[1] \in ForgeTypes THEN [ok |-> TRUE, v |-> s[1]]
                     ELSE [ok |-> FALSE, v |-> ""]

\* unalias_forge: the name-level alias
UnaliasForge(name) == IF name = <<"nodejs">> THEN <<"node">> ELSE name

\* Path::join: an absolute path replaces the base
PathJoin(base, p) == IF p # <<>> /\ Head(p) = "/" THEN p ELSE base \o <<"/">> \o p

\* dirs::CACHE, dirs::INSTALLS, dirs::DOWNLOADS
CACHE == <<"CACHE">>
INSTALLS == <<"INSTALLS">>
DOWNLOADS == <<"DOWNLOADS">>

\* a pathname that replaces ':' only
PathnameColonOnly(id) == [i \in DOMAIN id |-> IF id[i] = ":" THEN "-" ELSE id[i]]

\* line 45: regex!(r#"[/:]"#).replace_all(&id, "-")
Pathname(id) == [i \in DOMAIN id |-> IF id[i] \in {"/", ":"} THEN "-" ELSE id[i]]

\* ForgeArg::new, and with_input
ForgeArgNew(forge_type, name0, input) ==
    LET name == UnaliasForge(name0)
        id == IF forge_type = "asdf" THEN name ELSE <<forge_type>> \o <<":">> \o name
        pathname == Pathname(id)
    IN [name |-> name, forge_type |-> forge_type, id |-> id,
        cache_path |-> PathJoin(CACHE, pathname),
        installs_path |-> PathJoin(INSTALLS, pathname),
        downloads_path |-> PathJoin(DOWNLOADS, pathname),
        input |-> input]

\* a from that does not look the input up in the registry
ForgeArgFromNoRegistry(input) ==
    LET sp == SplitOnce(input, ":")
    IN IF sp.some /\ ForgeTypeParse(sp.head).ok
       THEN ForgeArgNew(ForgeTypeParse(sp.head).v, sp.tail, input)
       ELSE ForgeArgNew("asdf", input, input)

\* impl From<&str> for ForgeArg
ForgeArgFrom(input) ==
    LET s == IF RegistryGet(input).some THEN RegistryGet(input).v ELSE input
        sp == SplitOnce(s, ":")
    IN IF sp.some /\ ForgeTypeParse(sp.head).ok
       THEN ForgeArgNew(ForgeTypeParse(sp.head).v, sp.tail, input)
       ELSE ForgeArgNew("asdf", s, input)

NoForgeArg == [done |-> FALSE, fa |-> ForgeArgNew("asdf", <<>>, <<>>)]
\* no string is parsed
FaIdle == faIn = <<>> /\ faOut = NoForgeArg

(* ------------------------------- jobs --------------------------------- *)
\* Option<usize>
None == [some |-> FALSE, v |-> 0]
Some(n) == [some |-> TRUE, v |-> n]

\* a jobs that does not look at raw
JobsIgnoringRaw(o, s) == IF o.jobs.some THEN o.jobs.v ELSE s.jobs

\* lines 177-181: raw = opts.raw || settings.raw; jobs is 1 when raw, else
\* opts.jobs.unwrap_or(settings.jobs)
Jobs(o, s) ==
    LET raw == o.raw \/ s.raw
    IN IF raw THEN 1 ELSE IF o.jobs.some THEN o.jobs.v ELSE s.jobs

\* the options of a call: without raw, no jobs or fewer than the settings';
\* with raw, as many as the settings'
InstallOptions ==
    {[raw |-> FALSE, jobs |-> j] : j \in {None} \cup {Some(n) : n \in 0..(MaxJobs - 1)}}
    \cup {[raw |-> TRUE, jobs |-> Some(MaxJobs)]}
\* the settings: jobs is the most there is, raw is set or not
Settings == {[raw |-> r, jobs |-> MaxJobs] : r \in BOOLEAN}

\* a guard that lives on after its statement
GuardKept(w) == w

\* a MutexGuard that is a temporary of a statement, or of the condition of a
\* while, is dropped when the statement, or the condition, has been evaluated:
\* the mutex has no holder when worker w goes on
GuardDropped(w) == 0

(* ------------------------------- Init --------------------------------- *)
Idle == [w \in Workers |-> "idle"]

Init ==
    /\ batch \in SeqsUpTo(Forges, MaxLen)
    \* forge ids are interchangeable: the first request's forge is called "x"
    /\ batch # <<>> => batch[1] = "x"
    /\ deps \in [Forges -> SUBSET Forges]
    \* dependencies() of forges outside the batch is never called; no forge
    \* lists itself
    /\ \A f \in Forges : f \notin Range(batch) => deps[f] = {}
    /\ \A f \in Forges : f \notin deps[f]
    /\ rdeps \in [Forges -> SUBSET Forges]
    /\ \A f \in Forges : rdeps[f] \subseteq deps[f]
    /\ opts \in InstallOptions
    /\ settings \in Settings
    /\ jobs = Jobs(opts, settings)
    /\ qlock = 0
    /\ ilock = 0
    /\ stack = <<>>
    /\ versions = [i \in 1..Len(batch) |-> i]
    /\ fpc = "entry"
    /\ queue = <<>>
    /\ installing = {}
    /\ pc = Idle
    /\ cur = [w \in Workers |-> NoEntry]
    /\ tv = [w \in Workers |-> 0]
    /\ left = [w \in Workers |-> {}]
    /\ dep = [w \in Workers |-> ""]
    /\ out = [w \in Workers |-> <<>>]
    /\ result = "none"
    /\ retval = <<>>
    /\ started = [i \in 1..Len(batch) |-> 0]
    /\ finished = [i \in 1..Len(batch) |-> 0]
    /\ reshims = 0
    /\ rebuilds = 0
    /\ popped = <<>>
    /\ leafres = "none"
    /\ postres = "none"
    /\ ts = DefaultToolset
    /\ tsPrev = DefaultToolset
    /\ tsOp = NoOp
    /\ nops = 0
    /\ EnvIdle
    /\ FaIdle

(* ----------------------- install_versions: frame ---------------------- *)
\* the running call returns r ("ok" with list v, or "err"): to the caller-issued
\* call's caller, or to the suspended caller at line 161, whose `?` passes an
\* error on and which otherwise drops the list and goes on at line 163
Return(r, v) ==
    /\ leafres' = IF stack = <<>> THEN leafres ELSE r
    /\ IF stack = <<>> \/ r = "err"
       THEN /\ result' = r
            /\ retval' = IF stack = <<>> THEN v ELSE <<>>
            /\ fpc' = "returned"
            /\ stack' = <<>>
            /\ UNCHANGED versions
       ELSE /\ versions' = Head(stack)
            /\ stack' = Tail(stack)
            /\ fpc' = "queue"
            /\ UNCHANGED <<result, retval>>

workerVars == <<pc, cur, tv, left, dep, out>>
histVars == <<started, finished, reshims, rebuilds, popped>>
\* what no step of install_versions changes: its inputs, and the Toolset's map
inputVars == <<batch, deps, rdeps, opts, settings, jobs, tsVars, envVars, faVars>>
\* the inputs, both mutexes, which only the statements that lock them touch,
\* and the outcome of the resolve of line 230
fixedVars == <<inputVars, qlock, ilock, postres>>

\* lines 155-157: an empty batch returns Ok(vec![]) at once
EntryEmpty ==
    /\ fpc = "entry"
    /\ versions = <<>>
    /\ Return("ok", <<>>)
    /\ UNCHANGED <<fixedVars, queue, installing, workerVars, histVars>>

\* line 158: get_leaf_dependencies fails (a dependencies() call failed)
EntryLeafErr ==
    /\ fpc = "entry"
    /\ versions # <<>>
    /\ Return("err", <<>>)
    /\ UNCHANGED <<fixedVars, queue, installing, workerVars, histVars>>

\* lines 158-162: partition; recurse on the leaves when there are fewer of them
EntryLeaf ==
    /\ fpc = "entry"
    /\ versions # <<>>
    /\ LET leaf_deps == GetLeafDependencies(versions)
       IN IF Len(leaf_deps) < Len(versions)
          THEN /\ stack' = <<versions>> \o stack
               /\ versions' = leaf_deps
               /\ fpc' = "entry"
          ELSE /\ fpc' = "queue"
               /\ UNCHANGED <<stack, versions>>
    /\ UNCHANGED <<fixedVars, queue, installing, workerVars, histVars, result, retval,
                   leafres>>

\* lines 163-175: Settings::try_get or ensure_installed fails
QueueErr ==
    /\ fpc = "queue"
    /\ Return("err", <<>>)
    /\ UNCHANGED <<fixedVars, queue, installing, workerVars, histVars>>

\* lines 163-191: build the queue, the installing set, spawn `jobs` workers
Spawn ==
    /\ fpc = "queue"
    /\ queue' = BuildQueue(versions)
    /\ installing' = {}
    /\ pc' = [w \in Workers |-> IF w <= jobs THEN "pop" ELSE "idle"]
    /\ cur' = [w \in Workers |-> NoEntry]
    /\ tv' = [w \in Workers |-> 0]
    /\ left' = [w \in Workers |-> {}]
    /\ dep' = [w \in Workers |-> ""]
    /\ out' = [w \in Workers |-> <<>>]
    /\ popped' = <<>>
    /\ postres' = "none"
    /\ fpc' = "scope"
    /\ UNCHANGED <<inputVars, qlock, ilock, stack, versions, result, retval, leafres,
                   started, finished, reshims, rebuilds>>

(* ---------------------- install_versions: workers --------------------- *)
\* `for tv in versions` (line 196): the next request of the popped entry, or
\* line 216 when there is none left
ForNext(w, reqs) ==
    IF reqs = <<>>
    THEN /\ pc' = [pc EXCEPT ![w] = "remove"]
         /\ tv' = [tv EXCEPT ![w] = 0]
         /\ cur' = [cur EXCEPT ![w].reqs = <<>>]
    ELSE /\ pc' = [pc EXCEPT ![w] = "get_deps"]
         /\ tv' = [tv EXCEPT ![w] = Head(reqs)]
         /\ cur' = [cur EXCEPT ![w].reqs = Tail(reqs)]

frameVars == <<stack, versions, fpc, result, retval, leafres>>

\* lines 192-194: next_job() locks the queue and pops its last entry; the
\* worker returns Ok(installed) when the queue is empty
Pop(w) ==
    /\ fpc = "scope"
    /\ pc[w] = "pop"
    /\ qlock = 0
    /\ qlock' = GuardDropped(w)
    /\ IF queue = <<>>
       THEN /\ pc' = [pc EXCEPT ![w] = "done"]
            /\ UNCHANGED <<queue, cur, popped>>
       ELSE /\ queue' = SubSeq(queue, 1, Len(queue) - 1)
            /\ cur' = [cur EXCEPT ![w] = queue[Len(queue)]]
            /\ popped' = Append(popped, queue[Len(queue)].forge)
            /\ pc' = [pc EXCEPT ![w] = "insert"]
    /\ UNCHANGED <<inputVars, postres, ilock, frameVars, installing, tv, left, dep, out,
                   started, finished, reshims, rebuilds>>

\* line 195: installing.insert(t.id())
Insert(w) ==
    /\ fpc = "scope"
    /\ pc[w] = "insert"
    /\ ilock = 0
    /\ installing' = installing \cup {cur[w].forge}
    /\ ilock' = GuardDropped(w)
    /\ ForNext(w, cur[w].reqs)
    /\ UNCHANGED <<inputVars, postres, qlock, frameVars, queue, left, dep, out, histVars>>

\* the worker's closure returns Err through `?`: nothing after it runs, line 216
\* included; its locals (the popped entry, `installed`) are dropped
Fail(w) ==
    /\ pc' = [pc EXCEPT ![w] = "failed"]
    /\ cur' = [cur EXCEPT ![w] = NoEntry]
    /\ tv' = [tv EXCEPT ![w] = 0]
    /\ left' = [left EXCEPT ![w] = {}]
    /\ dep' = [dep EXCEPT ![w] = ""]
    /\ out' = [out EXCEPT ![w] = <<>>]
    /\ UNCHANGED <<fixedVars, frameVars, queue, installing, histVars>>

\* line 198: t.get_dependencies(&tv) returns Err
GetDepsErr(w) ==
    /\ fpc = "scope"
    /\ pc[w] = "get_deps"
    /\ Fail(w)

\* the worker goes on to the next dependency of ds (in the order the backend
\* listed them, which is the backend's choice), or to line 206 after the last
NextDep(w, ds) ==
    IF ds = {}
    THEN /\ pc' = [pc EXCEPT ![w] = "resolve"]
         /\ dep' = [dep EXCEPT ![w] = ""]
         /\ left' = [left EXCEPT ![w] = {}]
    ELSE \E d \in ds :
            /\ pc' = [pc EXCEPT ![w] = "check"]
            /\ dep' = [dep EXCEPT ![w] = d]
            /\ left' = [left EXCEPT ![w] = ds \ {d}]

\* line 198: t.get_dependencies(&tv) returns the runtime dependencies
GetDeps(w) ==
    /\ fpc = "scope"
    /\ pc[w] = "get_deps"
    /\ NextDep(w, rdeps[ForgeOf(tv[w])])
    /\ UNCHANGED <<fixedVars, frameVars, queue, installing, cur, tv, out, histVars>>

\* line 199: installing.lock().contains(dep): sleep when it does, else go on
Check(w) ==
    /\ fpc = "scope"
    /\ pc[w] = "check"
    /\ ilock = 0
    /\ IF dep[w] \in installing
       THEN /\ pc' = [pc EXCEPT ![w] = "sleep"]
            /\ UNCHANGED <<dep, left>>
       ELSE NextDep(w, left[w])
    /\ ilock' = GuardDropped(w)
    /\ UNCHANGED <<inputVars, postres, qlock, frameVars, queue, installing, cur, tv, out, histVars>>

\* line 203: sleep(100ms) ends, back to the loop condition
Sleep(w) ==
    /\ fpc = "scope"
    /\ pc[w] = "sleep"
    /\ pc' = [pc EXCEPT ![w] = "check"]
    /\ UNCHANGED <<fixedVars, frameVars, queue, installing, cur, tv, left, dep, out,
                   histVars>>

\* line 206: tv.resolve(...) returns Err
ResolveErr(w) ==
    /\ fpc = "scope"
    /\ pc[w] = "resolve"
    /\ Fail(w)

\* line 206: tv.resolve(...) returns the ToolVersion
Resolve(w) ==
    /\ fpc = "scope"
    /\ pc[w] = "resolve"
    /\ pc' = [pc EXCEPT ![w] = "install"]
    /\ UNCHANGED <<fixedVars, frameVars, queue, installing, cur, tv, left, dep, out,
                   histVars>>

\* line 213: t.install_version(ctx) is called
InstallBegin(w) ==
    /\ fpc = "scope"
    /\ pc[w] = "install"
    /\ pc' = [pc EXCEPT ![w] = "in_install"]
    /\ started' = [started EXCEPT ![tv[w]] = @ + 1]
    /\ UNCHANGED <<fixedVars, frameVars, queue, installing, cur, tv, left, dep, out,
                   finished, reshims, rebuilds, popped>>

\* line 213: t.install_version(ctx) returns Err
InstallErr(w) ==
    /\ fpc = "scope"
    /\ pc[w] = "in_install"
    /\ Fail(w)

\* lines 213-215: t.install_version(ctx) returns Ok; installed.push(tv)
InstallOk(w) ==
    /\ fpc = "scope"
    /\ pc[w] = "in_install"
    /\ finished' = [finished EXCEPT ![tv[w]] = @ + 1]
    /\ out' = [out EXCEPT ![w] = Append(@, tv[w])]
    /\ ForNext(w, cur[w].reqs)
    /\ UNCHANGED <<fixedVars, frameVars, queue, installing, left, dep,
                   started, reshims, rebuilds, popped>>

\* line 216: installing.remove(t.id())
Remove(w) ==
    /\ fpc = "scope"
    /\ pc[w] = "remove"
    /\ ilock = 0
    /\ installing' = installing \ {cur[w].forge}
    /\ ilock' = GuardDropped(w)
    /\ cur' = [cur EXCEPT ![w] = NoEntry]
    /\ pc' = [pc EXCEPT ![w] = "pop"]
    /\ UNCHANGED <<inputVars, postres, qlock, frameVars, queue, tv, left, dep, out, histVars>>

(* ------------------- install_versions: join and hooks ----------------- *)
AllJoined == \A w \in Workers : pc[w] \in {"idle", "done", "failed"}

\* lines 221-229: every worker is joined; an Err of a worker is returned
JoinErr ==
    /\ fpc = "scope"
    /\ AllJoined
    /\ \E w \in Workers : pc[w] = "failed"
    /\ Return("err", <<>>)
    /\ UNCHANGED <<fixedVars, queue, installing, workerVars, histVars>>

\* lines 221-229: every worker is joined and returned Ok
JoinOk ==
    /\ fpc = "scope"
    /\ AllJoined
    /\ \A w \in Workers : pc[w] # "failed"
    /\ fpc' = "resolve"
    /\ UNCHANGED <<fixedVars, stack, versions, result, retval, leafres, queue, installing,
                   workerVars, histVars>>

\* a resolve whose error ends the call
PropagatesErr(r) == r = "err"

\* lines 230-232: `if let Err(err) = self.resolve() { debug!(..) }` has no `?`
\* and no return: no outcome r of resolve ends the call
Propagates(r) == FALSE

\* lines 230-232: self.resolve() returns Ok or Err
PostResolve ==
    /\ fpc = "resolve"
    /\ \E r \in {"ok", "err"} :
          /\ postres' = r
          /\ IF Propagates(r)
             THEN Return("err", <<>>)
             ELSE /\ fpc' = "reshim"
                  /\ UNCHANGED <<stack, versions, result, retval, leafres>>
    /\ UNCHANGED <<inputVars, qlock, ilock, queue, installing, workerVars, histVars>>

\* line 233: shims::reshim(self) returns Err
ReshimErr ==
    /\ fpc = "reshim"
    /\ reshims' = reshims + 1
    /\ Return("err", <<>>)
    /\ UNCHANGED <<fixedVars, queue, installing, workerVars,
                   started, finished, rebuilds, popped>>

\* line 233: shims::reshim(self) returns Ok
Reshim ==
    /\ fpc = "reshim"
    /\ reshims' = reshims + 1
    /\ fpc' = "rebuild"
    /\ UNCHANGED <<fixedVars, stack, versions, result, retval, leafres, queue, installing,
                   workerVars, started, finished, rebuilds, popped>>

\* line 234: runtime_symlinks::rebuild(config) returns Err
RebuildErr ==
    /\ fpc = "rebuild"
    /\ rebuilds' = rebuilds + 1
    /\ Return("err", <<>>)
    /\ UNCHANGED <<fixedVars, queue, installing, workerVars,
                   started, finished, reshims, popped>>

\* lines 234-235: runtime_symlinks::rebuild(config) returns Ok; Ok(installed),
\* the workers' vectors flattened in spawn order (line 228)
Rebuild ==
    /\ fpc = "rebuild"
    /\ rebuilds' = rebuilds + 1
    /\ Return("ok", Flatten([w \in Workers |-> out[w]]))
    /\ UNCHANGED <<fixedVars, queue, installing, workerVars,
                   started, finished, reshims, popped>>

WorkerNext(w) ==
    \/ Pop(w) \/ Insert(w) \/ GetDepsErr(w) \/ GetDeps(w) \/ Check(w) \/ Sleep(w)
    \/ ResolveErr(w) \/ Resolve(w) \/ InstallBegin(w) \/ InstallErr(w)
    \/ InstallOk(w) \/ Remove(w)

FrameNext ==
    \/ EntryEmpty \/ EntryLeafErr \/ EntryLeaf \/ QueueErr \/ Spawn
    \/ JoinErr \/ JoinOk \/ PostResolve \/ ReshimErr \/ Reshim \/ RebuildErr \/ Rebuild

Next == FrameNext \/ \E w \in Workers : WorkerNext(w)

Spec == Init /\ [][Next]_vars

(* --------------------------- Toolset algebra -------------------------- *)
\* no install runs
SchedIdle ==
    /\ batch = <<>> /\ deps = [f \in Forges |-> {}] /\ rdeps = [f \in Forges |-> {}]
    /\ opts = [raw |-> FALSE, jobs |-> None] /\ settings = [raw |-> FALSE, jobs |-> 0]
    /\ jobs = 0 /\ qlock = 0 /\ ilock = 0 /\ stack = <<>> /\ versions = <<>> /\ fpc = "entry" /\ queue = <<>>
    /\ installing = {} /\ pc = Idle /\ cur = [w \in Workers |-> NoEntry]
    /\ tv = [w \in Workers |-> 0] /\ left = [w \in Workers |-> {}]
    /\ dep = [w \in Workers |-> ""] /\ out = [w \in Workers |-> <<>>]
    /\ result = "none" /\ retval = <<>> /\ started = <<>> /\ finished = <<>>
    /\ reshims = 0 /\ rebuilds = 0 /\ popped = <<>> /\ leafres = "none"
    /\ postres = "none"

\* no Toolset is operated on
TsIdle == ts = DefaultToolset /\ tsPrev = DefaultToolset /\ tsOp = NoOp /\ nops = 0

\* the receiver: built from a request set of source s1, then given its
\* disable_tools and tool_filter (both are public fields)
TsInit ==
    /\ SchedIdle
    /\ \E trs \in RequestSets("s1", 1), d \in SUBSET TsForges, tf \in Filters :
          ts = [FromToolRequestSet(trs) EXCEPT !.disable_tools = d, !.tool_filter = tf]
    /\ tsPrev = ts
    /\ tsOp = NoOp
    /\ nops = 0
    /\ EnvIdle
    /\ FaIdle

\* ts.add_version(tvr)
DoAddVersion ==
    /\ nops < MaxOps
    /\ \E fa \in TsForges, v \in {1, 2} :
          LET tvr == [forge |-> fa, v |-> v]
          IN /\ ~AddVersionPanics(ts, tvr)
             /\ ts' = AddVersion(ts, tvr)
             /\ tsOp' = [kind |-> "add", req |-> tvr, other |-> DefaultToolset]
    /\ tsPrev' = ts
    /\ nops' = nops + 1
    /\ UNCHANGED <<schedVars, envVars, faVars>>

\* ts.add_version(tvr) on a toolset without source, for a forge it lacks: the
\* unwrap panics before anything is inserted, and the call never returns
DoAddVersionPanic ==
    /\ nops < MaxOps
    /\ \E fa \in TsForges, v \in {1, 2} :
          LET tvr == [forge |-> fa, v |-> v]
          IN /\ AddVersionPanics(ts, tvr)
             /\ tsOp' = [kind |-> "panic", req |-> tvr, other |-> DefaultToolset]
    /\ ts' = ts
    /\ tsPrev' = ts
    /\ nops' = MaxOps
    /\ UNCHANGED <<schedVars, envVars, faVars>>

\* ts.merge(other)
DoMerge ==
    /\ nops < MaxOps
    /\ \E other \in Others :
          /\ ts' = Merge(ts, other)
          /\ tsOp' = [kind |-> "merge", req |-> NoReq, other |-> other]
    /\ tsPrev' = ts
    /\ nops' = nops + 1
    /\ UNCHANGED <<schedVars, envVars, faVars>>

TsNext == DoAddVersion \/ DoAddVersionPanic \/ DoMerge

TsSpec == TsInit /\ [][TsNext]_vars

(* --------------------------- env composition -------------------------- *)
\* a toolset of up to two forges with one current version each, a config, the
\* process PATH and the pristine environment
EnvInit ==
    /\ SchedIdle
    /\ TsIdle
    /\ \E n \in 0..Len(EnvForges) :
          \E tools \in [1..n -> UNION {ToolStates(EnvForges[i]) : i \in 1..n}] :
              /\ \A i \in 1..n : tools[i].forge = EnvForges[i]
              /\ \E c \in Configs, path \in {<<>>, <<<<"bin">>>>}, pr \in PristineEnvs :
                    envIn = [tools |-> tools, config |-> c, path |-> path, pristine |-> pr]
    /\ envOut = NoEnvOut
    /\ FaIdle

\* ts.env(config)
DoEnv ==
    /\ envOut.fn = "none"
    /\ envOut' = [fn |-> "env", map |-> Env(envIn)]
    /\ UNCHANGED <<schedVars, tsVars, envIn, faVars>>

\* ts.env_with_path(config)
DoEnvWithPath ==
    /\ envOut.fn = "none"
    /\ envOut' = [fn |-> "env_with_path", map |-> EnvWithPath(envIn)]
    /\ UNCHANGED <<schedVars, tsVars, envIn, faVars>>

\* ts.full_env()
DoFullEnv ==
    /\ envOut.fn = "none"
    /\ envOut' = [fn |-> "full_env", map |-> FullEnv(envIn)]
    /\ UNCHANGED <<schedVars, tsVars, envIn, faVars>>

EnvNext == DoEnv \/ DoEnvWithPath \/ DoFullEnv

EnvSpec == EnvInit /\ [][EnvNext]_vars

(* ------------------------------ ForgeArg ------------------------------ *)
\* a user string of up to MaxStr tokens
FaInit ==
    /\ SchedIdle
    /\ TsIdle
    /\ EnvIdle
    /\ faIn \in SeqsUpTo(FaTokens, MaxStr)
    /\ faOut = NoForgeArg

\* ForgeArg::from(input)
DoForgeArgFrom ==
    /\ ~faOut.done
    /\ faOut' = [done |-> TRUE, fa |-> ForgeArgFrom(faIn)]
    /\ UNCHANGED <<schedVars, tsVars, envVars, faIn>>

FaNext == DoForgeArgFrom

FaSpec == FaInit /\ [][FaNext]_vars

(* ----------------------- scheduler specifications --------------------- *)
\* forge g is reachable from forge f through declared dependencies in n steps
RECURSIVE Reaches(_, _, _)
Reaches(f, g, n) ==
    /\ n > 0
    /\ \/ g \in deps[f]
       \/ \E h \in deps[f] : Reaches(h, g, n - 1)

\* no forge depends on itself, directly or through others
Acyclic == \A f \in Forges : ~Reaches(f, f, Cardinality(Forges))

\* install_versions with at least one worker on a batch whose declared
\* dependencies have no cycle
DagInit == Init /\ Acyclic /\ jobs >= 1

DagSpec == DagInit /\ [][Next]_vars

\* the same, with the scheduling the code gives: every spawned thread keeps
\* running, every backend call and every sleep returns, the calling thread
\* goes on
FairSpec ==
    /\ DagInit
    /\ [][Next]_vars
    /\ WF_vars(FrameNext)
    /\ \A w \in Workers : WF_vars(WorkerNext(w))

(* ------------------------------ properties ---------------------------- *)
\* worker w is between popping a queue entry and finishing it
InFlight(w) ==
    pc[w] \in {"insert", "get_deps", "check", "sleep", "resolve", "install",
               "in_install", "remove"}

\* request i has no declared dependency among the forges of the caller's batch
IsLeaf(i) == deps[ForgeOf(i)] \cap Range(batch) = {}

\* the requests of the batch are adjacent per forge
Contiguous(vs) ==
    \A i, j, k \in DOMAIN vs :
        (i < j /\ j < k /\ ForgeOf(vs[i]) = ForgeOf(vs[k])) => ForgeOf(vs[j]) = ForgeOf(vs[i])

\* the forges of a list of requests, each run of one forge once
RECURSIVE Runs(_)
Runs(vs) ==
    IF vs = <<>> THEN <<>>
    ELSE LET r == Runs(Tail(vs))
         IN IF r # <<>> /\ r[1] = ForgeOf(Head(vs)) THEN r ELSE <<ForgeOf(Head(vs))>> \o r

IsPrefix(s, t) == Len(s) <= Len(t) /\ SubSeq(t, 1, Len(s)) = s

\* C1: at most one queue entry per forge is in flight at any moment: no two
\* workers are between pop and finish for the same forge.
C1_OneInFlightPerForge ==
    \A w1, w2 \in Workers :
        (w1 # w2 /\ InFlight(w1) /\ InFlight(w2)) => cur[w1].forge # cur[w2].forge

\* C2: when a worker calls install_version for tv, no forge of
\* get_dependencies(tv) is in the installing set.
C2_NoDepInstallingAtCall ==
    [][\A w \in Workers :
          (pc[w] = "install" /\ pc'[w] = "in_install")
              => rdeps[ForgeOf(tv[w])] \cap installing = {}]_vars

\* C3: the install of a version and an install of a forge among its runtime
\* dependencies never overlap in time.
C3_NoOverlapWithDep ==
    \A w1, w2 \in Workers :
        (w1 # w2 /\ pc[w1] = "in_install" /\ pc[w2] = "in_install")
            => ForgeOf(tv[w2]) \notin rdeps[ForgeOf(tv[w1])]

\* C4: once a worker has returned an error, install_versions eventually
\* returns an error to its caller.
C4_ErrorSurfaces == (\E w \in Workers : pc[w] = "failed") ~> (result = "err")

\* C5: with jobs >= 1 and no cycle in the dependencies, every dependency wait
\* ends and install_versions eventually returns.
C5_Returns == (jobs >= 1 /\ Acyclic) => <>(result # "none")

\* C6: an install of a non-leaf request begins only after every leaf request's
\* install has completed, and never after the leaf pass returned an error.
C6_LeavesFirst ==
    \A i \in DOMAIN batch :
        (~IsLeaf(i) /\ started[i] > 0)
            => /\ leafres = "ok"
               /\ \A j \in DOMAIN batch : IsLeaf(j) => finished[j] > 0

\* install_version is running for a non-leaf request of a batch that has a leaf
C6_Witness ==
    \E i, j \in DOMAIN batch :
        /\ ~IsLeaf(i) /\ IsLeaf(j)
        /\ \E w \in Workers : pc[w] = "in_install" /\ tv[w] = i

\* C7: the post-install hooks run at most once per caller-issued call, only
\* after every request of the batch has been installed, and exactly once when
\* the call returns Ok for a non-empty batch.
C7_HooksOnce ==
    /\ reshims <= 1 /\ rebuilds <= 1
    /\ (reshims > 0 \/ rebuilds > 0) => \A i \in DOMAIN batch : finished[i] > 0
    /\ (result = "ok" /\ batch # <<>>) => (reshims = 1 /\ rebuilds = 1)

\* C8: for a batch contiguous by forge the k-th pop returns the k-th declared
\* forge, and with jobs = 1 the forges are installed in declared order.
C8_PopOrder ==
    (fpc = "scope" /\ Contiguous(versions))
        => /\ IsPrefix(popped, Runs(versions))
           /\ jobs = 1 => IsPrefix(Runs(out[1]), Runs(versions))

\* a single worker has popped, and installed, two forges of a contiguous batch
C8_Witness ==
    /\ fpc = "scope" /\ Contiguous(versions) /\ jobs = 1
    /\ Len(popped) = 2 /\ Len(Runs(out[1])) = 2

\* C9: for requests r1 before r2 of one forge, install_version for r1 returns
\* before install_version for r2 is called.
C9_DeclOrderInForge ==
    \A i, j \in DOMAIN batch :
        (i < j /\ ForgeOf(i) = ForgeOf(j) /\ started[j] > 0) => finished[i] > 0

\* the forges of a map, in order
KeySeq(m) == [i \in DOMAIN m |-> m[i].key]

\* C10: after receiver.merge(other) the map is other's entries in other's
\* order (other's list for a forge of both), then the receiver's entries whose
\* forge other lacks, in the receiver's order, without the forges the receiver
\* disables; the source is other's.
C10_Merge ==
    tsOp.kind = "merge" =>
        LET other == tsOp.other
            kept(m) == SelectSeq(m, LAMBDA e :
                           /\ e.key \notin tsPrev.disable_tools
                           /\ tsPrev.tool_filter.present => e.key \in tsPrev.tool_filter.set)
            own == SelectSeq(tsPrev.versions, LAMBDA e : e.key \notin Keys(other.versions))
        IN /\ ts.versions = kept(other.versions) \o kept(own)
           /\ ts.source = other.source

\* the receiver [a, b] was merged with [c, a]: both hold a, all are enabled
C10_Witness ==
    /\ tsOp.kind = "merge"
    /\ KeySeq(tsPrev.versions) = <<"a", "b">>
    /\ KeySeq(tsOp.other.versions) = <<"c", "a">>
    /\ KeySeq(ts.versions) = <<"c", "a", "b">>

\* position of forge k in map m, 0 when m lacks it
Pos(m, k) == IF ContainsKey(m, k) THEN IndexOf(m, k) ELSE 0

\* C11: merge preserves the insertion order of the receiver's map: the keys
\* the receiver held stay first, in the receiver's order (so each keeps its
\* place among them and its index), and the forges new to the receiver follow.
C11_ReceiverOrderKept ==
    tsOp.kind = "merge" =>
        IsPrefix(KeySeq(SelectSeq(tsPrev.versions, LAMBDA e : ContainsKey(ts.versions, e.key))),
                 KeySeq(ts.versions))

\* C11, amended: merge keeps other's keys first, in other's order, and after
\* them the receiver's keys that other lacks, in the receiver's order.
C11_OtherIsBase ==
    tsOp.kind = "merge" =>
        LET o == tsOp.other.versions
            r == tsPrev.versions
            m == ts.versions
        IN \A k1, k2 \in Keys(m) :
              /\ (k1 \in Keys(o) /\ k2 \notin Keys(o)) => Pos(m, k1) < Pos(m, k2)
              /\ (k1 \in Keys(o) /\ k2 \in Keys(o))
                     => (Pos(m, k1) < Pos(m, k2) <=> Pos(o, k1) < Pos(o, k2))
              /\ (k1 \notin Keys(o) /\ k2 \notin Keys(o))
                     => /\ k1 \in Keys(r)
                        /\ Pos(m, k1) < Pos(m, k2) <=> Pos(r, k1) < Pos(r, k2)

\* the receiver [a, b] was merged with [c]: c came first, a and b kept their
\* order behind it
C11_Witness ==
    /\ tsOp.kind = "merge"
    /\ KeySeq(tsPrev.versions) = <<"a", "b">>
    /\ KeySeq(tsOp.other.versions) = <<"c">>
    /\ KeySeq(ts.versions) = <<"c", "a", "b">>

\* C12: after any add_version or merge no key of versions is a forge in
\* disable_tools or, with tool_filter present, outside tool_filter.
C12_NoDisabledKey ==
    tsOp.kind \in {"add", "merge"} => \A k \in Keys(ts.versions) : ~IsDisabled(ts, k)

Exporters(in, k) ==
    SelectSeq(ListCurrentInstalledVersions(in),
              LAMBDA t : ~t.system /\ t.exec.ok /\ k \in DOMAIN t.exec.env)

\* C14: the map env(config) returns has neither the key MISE_ADD_PATH nor
\* RTX_ADD_PATH nor a key starting with MISE_TOOL_OPTS__ or RTX_TOOL_OPTS__;
\* the values exported under the two ADD_PATH keys are found in no entry but
\* PATH.
C14_NoSpecialKeys ==
    envOut.fn = "env" =>
        /\ \A k \in DOMAIN envOut.map :
              /\ k # MISE_ADD_PATH /\ k # RTX_ADD_PATH
              /\ ~StartsWith(k, MISE_TOOL_OPTS) /\ ~StartsWith(k, RTX_TOOL_OPTS)
        /\ \A k \in DOMAIN envOut.map :
              k # PATH => \A t \in Range(envIn.tools), a \in {MISE_ADD_PATH, RTX_ADD_PATH} :
                             envOut.map[k] # <<t.forge>> \o a

\* C15: when two versions of different forges both export a key, env(config)
\* maps the key to the value of the forge that is earlier in insertion order.
C15_EarlierWins ==
    envOut.fn = "env" =>
        \A k \in ToolKeys :
            Len(Exporters(envIn, k)) >= 2
                => /\ k \in DOMAIN envOut.map
                   /\ envOut.map[k] = Exporters(envIn, k)[1].exec.env[k]

\* key k is one env drops, overwrites with the joined ADD_PATH values, or takes
\* from config.env()
Overridden(in, k) ==
    \/ k \in {MISE_ADD_PATH, RTX_ADD_PATH}
    \/ StartsWith(k, MISE_TOOL_OPTS) \/ StartsWith(k, RTX_TOOL_OPTS)
    \/ k = PATH /\ AddPaths(ExecEntries(in)) # <<>>
    \/ k \in DOMAIN in.config.env

\* C15, amended: the earlier forge's value wins for every key that is not one
\* of the dropped special keys, not PATH while ADD_PATH values exist, and not a
\* key of config.env().
C15_EarlierWinsUnlessOverridden ==
    envOut.fn = "env" =>
        \A k \in ToolKeys :
            (Len(Exporters(envIn, k)) >= 2 /\ ~Overridden(envIn, k))
                => /\ k \in DOMAIN envOut.map
                   /\ envOut.map[k] = Exporters(envIn, k)[1].exec.env[k]

\* t1 and t2 both exported FOO, config.env() has no FOO, and env was called
C15_Witness ==
    /\ envOut.fn = "env"
    /\ Len(Exporters(envIn, FOO)) = 2
    /\ FOO \notin DOMAIN envIn.config.env
    /\ envOut.map[FOO] = <<"t1">> \o FOO

\* every (key, value) pair of map m is a pair of map n
SubMap(m, n) == \A k \in DOMAIN m : k \in DOMAIN n /\ n[k] = m[k]

\* C16: every pair of env(config) is a pair of env_with_path(config), and
\* every pair of env_with_path(config) is a pair of full_env().
C16_Nested ==
    /\ envOut.fn = "env_with_path" => SubMap(Env(envIn), envOut.map)
    /\ envOut.fn = "full_env" => SubMap(EnvWithPath(envIn), envOut.map)

\* C16, amended: every key of env(config) is a key of env_with_path(config),
\* with the same value unless the key is PATH; every pair of
\* env_with_path(config) is a pair of full_env().
C16_NestedButPath ==
    /\ envOut.fn = "env_with_path" =>
          \A k \in DOMAIN Env(envIn) :
              /\ k \in DOMAIN envOut.map
              /\ k # PATH => envOut.map[k] = Env(envIn)[k]
    /\ envOut.fn = "full_env" => SubMap(EnvWithPath(envIn), envOut.map)

\* env_with_path was called where env has a PATH entry and another one, and the
\* process has a PATH of its own
C16_Witness ==
    /\ envOut.fn = "env_with_path"
    /\ {PATH, FOO} \subseteq DOMAIN Env(envIn)
    /\ envIn.path # <<>>
    /\ envOut.map[PATH] # Env(envIn)[PATH]

\* s with the registry's alias for it, when there is one
Rewritten(s) == IF s = <<"ubi">> THEN <<"cargo", ":", "ubi">> ELSE s

\* the position of the first ':' of s, 0 when there is none
FirstColon(s) ==
    IF \E i \in DOMAIN s : s[i] = ":"
    THEN CHOOSE i \in DOMAIN s : s[i] = ":" /\ \A j \in 1..(i - 1) : s[j] # ":"
    ELSE 0

\* the backend and the name the split of s gives, the name being passed
\* through alias(_)
Parsed(s, alias(_)) ==
    LET i == FirstColon(s)
    IN IF i > 0 /\ SubSeq(s, 1, i - 1) \in {<<"asdf">>, <<"cargo">>, <<"npm">>}
       THEN [forge_type |-> s[1], name |-> alias(SubSeq(s, i + 1, Len(s)))]
       ELSE [forge_type |-> "asdf", name |-> alias(s)]

\* id is name for Asdf, and backend:name otherwise
IdRule(fa) ==
    fa.id = IF fa.forge_type = "asdf" THEN fa.name ELSE <<fa.forge_type, ":">> \o fa.name

\* C17: the string, after the registry's rewriting, is split on its first ':';
\* a known backend tag as prefix gives that backend and the remainder as name,
\* anything else gives Asdf and the whole string as name; id is name for Asdf
\* and backend:name otherwise.
C17_Parse ==
    faOut.done =>
        LET p == Parsed(Rewritten(faIn), LAMBDA n : n)
        IN /\ faOut.fa.forge_type = p.forge_type
           /\ faOut.fa.name = p.name
           /\ IdRule(faOut.fa)

\* C17, amended: the name is the remainder, or the whole string, with
\* unalias_forge applied to it.
C17_ParseUnaliased ==
    faOut.done =>
        LET p == Parsed(Rewritten(faIn), UnaliasForge)
        IN /\ faOut.fa.forge_type = p.forge_type
           /\ faOut.fa.name = p.name
           /\ IdRule(faOut.fa)

\* "cargo:nodejs" was parsed: backend cargo, name and id with the alias undone
C17_Witness ==
    /\ faOut.done
    /\ faIn = <<"cargo", ":", "nodejs">>
    /\ faOut.fa.forge_type = "cargo"
    /\ faOut.fa.id = <<"cargo", ":", "node">>

\* C18: the three paths are the base directory joined with the slug, which is
\* id with every '/' and ':' replaced by '-' and so holds neither.
C18_Slug ==
    faOut.done =>
        LET id == faOut.fa.id
            slug == [i \in DOMAIN id |-> IF id[i] = "/" \/ id[i] = ":" THEN "-" ELSE id[i]]
        IN /\ faOut.fa.cache_path = <<"CACHE", "/">> \o slug
           /\ faOut.fa.installs_path = <<"INSTALLS", "/">> \o slug
           /\ faOut.fa.downloads_path = <<"DOWNLOADS", "/">> \o slug
           /\ \A i \in DOMAIN slug : slug[i] # "/" /\ slug[i] # ":"

\* "npm:@antfu/ni" was parsed and its installs path is INSTALLS/npm-@antfu-ni
C18_Witness ==
    /\ faOut.done
    /\ faIn = <<"npm", ":", "@antfu", "/", "ni">>
    /\ faOut.fa.installs_path = <<"INSTALLS", "/", "npm", "-", "@antfu", "-", "ni">>

\* the number of install_version calls in progress
InProgress == Cardinality({w \in Workers : pc[w] = "in_install"})

\* C19: at every moment at most jobs install_version calls are in progress,
\* jobs being 1 when opts.raw or settings.raw is set and else opts.jobs or,
\* without it, settings.jobs; with raw set no two installs overlap.
C19_AtMostJobs ==
    LET n == IF opts.raw \/ settings.raw THEN 1
             ELSE IF opts.jobs.some THEN opts.jobs.v ELSE settings.jobs
    IN /\ InProgress <= n
       /\ (opts.raw \/ settings.raw) => InProgress <= 1

\* an install runs under raw where the options ask for more than one job and
\* another request is still queued
C19_Witness ==
    /\ opts.raw /\ opts.jobs.some /\ opts.jobs.v > 1
    /\ InProgress = 1
    /\ queue # <<>>

\* C20: no worker holds the queue mutex or the installing mutex while it is
\* in get_dependencies, resolve, install_version or the sleep of the
\* dependency wait.
C20_NoLockAcrossCalls ==
    \A w \in Workers :
        pc[w] \in {"get_deps", "sleep", "resolve", "install", "in_install"}
            => qlock # w /\ ilock # w

\* one worker sleeps in the dependency wait while another is in install_version
C20_Witness ==
    \E w1, w2 \in Workers :
        /\ pc[w1] = "sleep" /\ pc[w2] = "in_install"
        /\ qlock = 0 /\ ilock = 0

\* C21: when the resolve() after the join fails, install_versions does not
\* return that failure: the hooks are still invoked, an error it returns comes
\* from a hook, and with the hooks succeeding it returns Ok with the installed
\* versions.
C21_ResolveErrorNotReturned ==
    /\ [](postres = "err" =>
            /\ fpc \in {"reshim", "rebuild", "queue", "returned"}
            /\ fpc # "reshim" => reshims >= 1
            /\ fpc = "returned" => result \in {"ok", "err"}
            /\ (fpc = "returned" /\ result = "ok")
                  => /\ rebuilds >= 1
                     /\ retval = Flatten([w \in Workers |-> out[w]])
                     /\ Range(retval) = {i \in DOMAIN batch : finished[i] > 0})
    /\ [][/\ (fpc = "resolve" /\ postres' = "err")
                => (fpc' = "reshim" /\ result' = result)
          /\ (postres = "err" /\ fpc \in {"reshim", "rebuild"} /\ result' = "err")
                => (reshims' = reshims + 1 \/ rebuilds' = rebuilds + 1)]_vars

\* the resolve() after the join failed, both hooks ran, and the caller-issued
\* call returned Ok with everything it installed
C21_Witness ==
    /\ postres = "err" /\ fpc = "returned" /\ result = "ok"
    /\ Len(retval) = Len(batch) /\ batch # <<>>
    /\ reshims >= 1 /\ rebuilds >= 1

\* worker w has inserted the forge of its queue entry and not yet removed it
Processing(w) ==
    pc[w] \in {"get_deps", "check", "sleep", "resolve", "install", "in_install", "remove"}

\* C22: while a worker is in install_version, or waits on dependencies, for a
\* request of forge F, F is in the installing set; an id leaves the set only
\* when no worker is processing a queue entry of that forge.
C22_InstallingHoldsForge ==
    \A w \in Workers : Processing(w) => cur[w].forge \in installing

\* the batch has a request that is no leaf
HasNonLeaf == \E i \in DOMAIN batch : ~IsLeaf(i)

\* C23: in a successful caller-issued call with jobs >= 1, install_version is
\* invoked twice for every leaf request and once for every other request when
\* the batch has a non-leaf request, and once for every request when it has
\* none; the returned list has one ToolVersion per request.
C23_InstallCounts ==
    (fpc = "returned" /\ result = "ok" /\ jobs >= 1) =>
        /\ \A i \in DOMAIN batch :
              started[i] = IF HasNonLeaf /\ IsLeaf(i) THEN 2 ELSE 1
        /\ Len(retval) = Len(batch)
        /\ \A i \in DOMAIN batch : Cardinality({k \in DOMAIN retval : retval[k] = i}) = 1

\* a call on a batch with a leaf and a non-leaf request returned Ok: the leaf
\* was installed twice, the other once
C23_Witness ==
    /\ fpc = "returned" /\ result = "ok" /\ jobs >= 1
    /\ \E i, j \in DOMAIN batch :
          /\ IsLeaf(i) /\ ~IsLeaf(j)
          /\ started[i] = 2 /\ started[j] = 1
    /\ Len(retval) = Len(batch)

====
